---- MODULE Spec2Model ----
(***************************************************************************)
(* doglog: the command-line argument resolution of args.go.                *)
(*                                                                         *)
(* parseArgs turns the raw flag values into one options record; its        *)
(* helpers are strToDate, timeRangeToSeconds, expandPath, isTty and the    *)
(* shared fatal path invalidArgs (which ends the process).                 *)
(*                                                                         *)
(* Text that the code indexes (range strings, paths) is a sequence of      *)
(* one-character strings; text that the code only concatenates or tests    *)
(* for emptiness (service, query, messages, date strings) is a string.     *)
(***************************************************************************)
EXTENDS Integers, Sequences, FiniteSets, TLC

VARIABLES
    pc,               \* position of the run
    caller,           \* who called the helper under way: "parseArgs" or "test"
    stdoutIsTerminal, \* environment: is the output stream a terminal
    usr,              \* what user.Current() gave (Nil before the call or on failure)
    defaultConfigPath,\* parseArgs local, line 46
    argv,             \* what the user gave on the command line (Nil before Parse)
    argvRejected,     \* the argument parser rejected the command line
    flags,            \* the values the parser's pointers hold (Nil before Parse)
    startDate,        \* parseArgs local, line 63
    endDate,          \* parseArgs local, line 64
    limit,            \* parseArgs local *limit after lines 66-69
    tail,             \* parseArgs local *tail after lines 71-74
    query,            \* parseArgs local *query after lines 76-83
    timeRange,        \* argument of timeRangeToSeconds
    parts,            \* timeRangeToSeconds local
    partIdx,          \* timeRangeToSeconds: index of the next part of the loop
    accumulator,      \* timeRangeToSeconds local
    rangeSeconds,     \* value timeRangeToSeconds returned (Nil before)
    opts,             \* parseArgs local opts (Nil before line 85)
    result,           \* what parseArgs returned (Nil if it has not returned)
    configPathLoaded, \* the path handed to config.New (Nil before)
    pathIn,           \* argument of the last expandPath call
    pathOut,          \* value of the last expandPath call
    stderr,           \* lines written to the error stream
    exitStatus        \* process exit status (Nil while running)

vars == << pc, caller, stdoutIsTerminal, usr, defaultConfigPath, flags,
           argv, argvRejected,
           startDate, endDate, limit, tail, query, timeRange, parts, partIdx,
           accumulator, rangeSeconds, opts, result, configPathLoaded,
           pathIn, pathOut, stderr, exitStatus >>

\* a nil pointer, a nil error, an absent value; Ptr(v) is a present one
Nil == << >>
Ptr(v) == << v >>
Deref(p) == p[1]

-----------------------------------------------------------------------------
(* Bounds of the model *)

\* longest range string given to timeRangeToSeconds on its own
MaxRangeLen == 4
\* longest path given to expandPath on its own
MaxPathLen == 4
\* raw limits run over -MaxLimit..MaxLimit and the default
MaxLimit == 1

-----------------------------------------------------------------------------
(* Program constants, lines 17-24 *)

DefaultLimit == 300
DefaultRange == << "2", "h" >>
DefaultConfigPath == << "~", "/", ".", "d", "o", "g", "l", "o", "g" >>

-----------------------------------------------------------------------------
(* Text helpers *)

Digits == { "0", "1", "2", "3", "4", "5", "6", "7", "8", "9" }
LowerLetters == { "a", "d", "h", "m", "s", "x" }
UpperLetters == { "D", "H", "M", "S", "X" }
Letters == LowerLetters \cup UpperLetters

DigitValue(c) ==
    CASE c = "0" -> 0 [] c = "1" -> 1 [] c = "2" -> 2 [] c = "3" -> 3
      [] c = "4" -> 4 [] c = "5" -> 5 [] c = "6" -> 6 [] c = "7" -> 7
      [] c = "8" -> 8 [] c = "9" -> 9

\* strings.ToLower on one character
ToLower(c) ==
    CASE c = "D" -> "d" [] c = "H" -> "h" [] c = "M" -> "m"
      [] c = "S" -> "s" [] c = "X" -> "x" [] OTHER -> c

RECURSIVE StringsUpTo(_, _)
StringsUpTo(alphabet, n) ==
    IF n = 0 THEN { << >> }
    ELSE LET shorter == StringsUpTo(alphabet, n - 1)
         IN  shorter \cup { Append(s, c) : s \in shorter, c \in alphabet }

-----------------------------------------------------------------------------
(* invalidArgs, lines 172-184: what it writes; the caller's action ends   *)
(* the process with status 1.                                              *)

Usage == "usage: doglog"

InvalidArgsMutNoCause(err, msg) == << Usage >>

InvalidArgs(err, msg) ==
    LET cause == IF msg /= ""
                 THEN IF err /= Nil THEN << msg \o ": " \o Deref(err) >>
                                    ELSE << msg >>
                 ELSE IF err /= Nil THEN << Deref(err) >> ELSE << >>
    IN  cause \o << Usage >>

-----------------------------------------------------------------------------
(* timeRangeToSeconds, lines 142-169 *)

\* end offset of the longest run of characters of `class` starting at offset i
RECURSIVE RunEnd(_, _, _)
RunEnd(s, i, class) ==
    IF i < Len(s) /\ s[i + 1] \in class THEN RunEnd(s, i + 1, class) ELSE i

\* end offset of the match of ([0-9]*)([a-zA-Z]*) that starts at offset pos
MatchEnd(s, pos) == RunEnd(s, RunEnd(s, pos, Digits), Letters)

\* regexp.FindAllString(s, -1) for that pattern: an empty match that abuts
\* the preceding match is dropped, and the scan moves on by one character
RECURSIVE FindAllFrom(_, _, _)
FindAllFrom(s, pos, prevMatchEnd) ==
    IF pos > Len(s) THEN << >>
    ELSE LET e == MatchEnd(s, pos)
             accept == ~(e = pos /\ pos = prevMatchEnd)
             nextPos == IF e = pos THEN pos + 1 ELSE e
             rest == FindAllFrom(s, nextPos, e)
         IN  IF accept THEN << SubSeq(s, pos + 1, e) >> \o rest ELSE rest

FindAllString(s) == FindAllFrom(s, 0, -1)

\* strconv.Atoi on a text of digits and letters
RECURSIVE AtoiValue(_)
AtoiValue(s) ==
    IF s = << >> THEN 0
    ELSE 10 * AtoiValue(SubSeq(s, 1, Len(s) - 1)) + DigitValue(s[Len(s)])

Atoi(s) ==
    IF s /= << >> /\ \A i \in 1..Len(s) : s[i] \in Digits
    THEN [num |-> AtoiValue(s), err |-> Nil]
    ELSE [num |-> 0, err |-> Ptr("strconv.Atoi: invalid syntax")]

UnitSecondsMutHour(unit) ==
    CASE unit = "s" -> 1 [] unit = "m" -> 60 [] unit = "h" -> 60
      [] unit = "d" -> 86400 [] OTHER -> 0

\* the switch of lines 154-165: the multiplier of a unit, 0 for the default case
UnitSeconds(unit) ==
    CASE unit = "s" -> 1 [] unit = "m" -> 60 [] unit = "h" -> 3600
      [] unit = "d" -> 86400 [] OTHER -> 0

\* one iteration of the loop of lines 146-167 on `part` with the sum `acc`
PartStep(acc, part) ==
    IF Len(part) > 1
    THEN LET unit == part[Len(part)]
             numberStr == SubSeq(part, 1, Len(part) - 1)
             a == Atoi(numberStr)
             mult == UnitSeconds(ToLower(unit))
         IN  IF a.err /= Nil
             THEN [fatal |-> TRUE, acc |-> acc,
                   errout |-> InvalidArgs(a.err, "Time range can't be parsed")]
             ELSE IF mult = 0
             THEN [fatal |-> TRUE, acc |-> acc,
                   errout |-> InvalidArgs(a.err, "Time range can't be parsed")]
             ELSE [fatal |-> FALSE, acc |-> acc + a.num * mult, errout |-> << >>]
    ELSE [fatal |-> FALSE, acc |-> acc, errout |-> << >>]

\* the whole function as a value: Nil when it takes the fatal path, else
\* Ptr of the seconds returned
RECURSIVE RangeLoop(_, _, _)
RangeLoop(ps, i, acc) ==
    IF i > Len(ps) THEN Ptr(acc)
    ELSE LET r == PartStep(acc, ps[i])
         IN  IF r.fatal THEN Nil ELSE RangeLoop(ps, i + 1, r.acc)

TimeRangeToSeconds(s) == RangeLoop(FindAllString(s), 1, 0)

RangeAlphabet == { "1", "2", "s", "m", "h", "d", "D", "x", "-" }
RangeInputs == StringsUpTo(RangeAlphabet, MaxRangeLen)

\* lines 143-145
TrsFindAll ==
    /\ pc = "trs_enter"
    /\ parts' = FindAllString(timeRange)
    /\ accumulator' = 0
    /\ partIdx' = 1
    /\ pc' = "trs_loop"
    /\ UNCHANGED << caller, stdoutIsTerminal, usr, defaultConfigPath, flags,
                    argv, argvRejected, startDate, endDate, limit, tail, query, timeRange,
                    rangeSeconds, opts, result, configPathLoaded, pathIn,
                    pathOut, stderr, exitStatus >>

\* lines 146-167, one part
TrsPart ==
    /\ pc = "trs_loop"
    /\ partIdx <= Len(parts)
    /\ LET r == PartStep(accumulator, parts[partIdx])
       IN  IF r.fatal
           THEN /\ stderr' = stderr \o r.errout
                /\ exitStatus' = Ptr(1)
                /\ pc' = "exited"
                /\ UNCHANGED << accumulator, partIdx >>
           ELSE /\ accumulator' = r.acc
                /\ partIdx' = partIdx + 1
                /\ UNCHANGED << stderr, exitStatus, pc >>
    /\ UNCHANGED << caller, stdoutIsTerminal, usr, defaultConfigPath, flags,
                    argv, argvRejected, startDate, endDate, limit, tail, query, timeRange, parts,
                    rangeSeconds, opts, result, configPathLoaded, pathIn,
                    pathOut >>

\* line 168
TrsReturn ==
    /\ pc = "trs_loop"
    /\ partIdx > Len(parts)
    /\ rangeSeconds' = Ptr(accumulator)
    /\ pc' = IF caller = "parseArgs" THEN "opts" ELSE "trs_returned"
    /\ UNCHANGED << caller, stdoutIsTerminal, usr, defaultConfigPath, flags,
                    argv, argvRejected, startDate, endDate, limit, tail, query, timeRange, parts,
                    partIdx, accumulator, opts, result, configPathLoaded,
                    pathIn, pathOut, stderr, exitStatus >>

-----------------------------------------------------------------------------
(* expandPath, lines 187-198 *)

\* the components of a path between its separators
RECURSIVE SplitFrom(_, _, _)
SplitFrom(s, i, cur) ==
    IF i > Len(s) THEN << cur >>
    ELSE IF s[i] = "/" THEN << cur >> \o SplitFrom(s, i + 1, << >>)
    ELSE SplitFrom(s, i + 1, Append(cur, s[i]))

DotDot == << ".", "." >>

\* filepath.Clean's pass over the components: "" and "." are dropped, ".."
\* removes the component before it, or is dropped at the root
RECURSIVE CleanStack(_, _, _, _)
CleanStack(comps, i, stack, rooted) ==
    IF i > Len(comps) THEN stack
    ELSE LET c == comps[i]
             next ==
                 IF c = << >> \/ c = << "." >> THEN stack
                 ELSE IF c = DotDot
                 THEN IF Len(stack) > 0 /\ stack[Len(stack)] /= DotDot
                      THEN SubSeq(stack, 1, Len(stack) - 1)
                      ELSE IF rooted THEN stack ELSE Append(stack, c)
                 ELSE Append(stack, c)
         IN  CleanStack(comps, i + 1, next, rooted)

RECURSIVE JoinComponents(_, _)
JoinComponents(stack, i) ==
    IF i > Len(stack) THEN << >>
    ELSE (IF i > 1 THEN << "/" >> ELSE << >>) \o stack[i]
         \o JoinComponents(stack, i + 1)

\* filepath.Clean on a Unix path
Clean(s) ==
    IF s = << >> THEN << "." >>
    ELSE LET rooted == s[1] = "/"
             stack == CleanStack(SplitFrom(s, 1, << >>), 1, << >>, rooted)
             out == (IF rooted THEN << "/" >> ELSE << >>)
                    \o JoinComponents(stack, 1)
         IN  IF out = << >> THEN << "." >> ELSE out

\* filepath.Join of two elements: empty elements are left out, the rest is
\* joined by a separator and cleaned
FilepathJoin(a, b) ==
    IF a = << >> /\ b = << >> THEN << >>
    ELSE IF a = << >> THEN Clean(b)
    ELSE IF b = << >> THEN Clean(a)
    ELSE Clean(a \o << "/" >> \o b)

HasPrefixMutContains(s, prefix) ==
    \E i \in 1..Len(s) :
        /\ i + Len(prefix) - 1 <= Len(s)
        /\ SubSeq(s, i, i + Len(prefix) - 1) = prefix

\* strings.HasPrefix
HasPrefix(s, prefix) ==
    Len(s) >= Len(prefix) /\ SubSeq(s, 1, Len(prefix)) = prefix

TildeSlash == << "~", "/" >>

\* the value of expandPath for the user u, which is not Nil when the path
\* has the prefix
ExpandPath(configPath, u) ==
    IF HasPrefix(configPath, TildeSlash)
    THEN FilepathJoin(u.HomeDir, SubSeq(configPath, 3, Len(configPath)))
    ELSE configPath

Homes == { << "/", "h" >>, << "/" >> }
\* what user.Current() can give: a user, or nil with an error
Users == { Nil } \cup { Ptr([HomeDir |-> h]) : h \in Homes }

PathAlphabet == { "~", "/", "a", "." }
EtcTildeFoo == << "/", "e", "t", "c", "/", "~", "/", "f", "o", "o" >>
PathInputs ==
    StringsUpTo(PathAlphabet, MaxPathLen) \cup { DefaultConfigPath, EtcTildeFoo }

\* lines 187-198; with a nil user, usr.HomeDir of line 191 panics
ExpandPathCall ==
    /\ pc = "ep_enter"
    /\ IF HasPrefix(pathIn, TildeSlash)
       THEN \E u \in Users :
               /\ usr' = u
               /\ IF u = Nil
                  THEN /\ pc' = "panicked"
                       /\ exitStatus' = Ptr(2)
                       /\ stderr' = Append(stderr, "panic: nil pointer dereference")
                       /\ UNCHANGED pathOut
                  ELSE /\ pathOut' = ExpandPath(pathIn, Deref(u))
                       /\ pc' = IF caller = "parseArgs" THEN "parse"
                                                        ELSE "ep_returned"
                       /\ UNCHANGED << exitStatus, stderr >>
       ELSE /\ pathOut' = pathIn
            /\ pc' = IF caller = "parseArgs" THEN "parse" ELSE "ep_returned"
            /\ UNCHANGED << usr, exitStatus, stderr >>
    /\ UNCHANGED << caller, stdoutIsTerminal, defaultConfigPath, flags,
                    argv, argvRejected, startDate, endDate, limit, tail, query, timeRange, parts,
                    partIdx, accumulator, rangeSeconds, opts, result,
                    configPathLoaded, pathIn >>

\* the state of a run that has not started any of parseArgs
Idle ==
    /\ usr = Nil
    /\ defaultConfigPath = Nil
    /\ flags = Nil
    /\ argv = Nil
    /\ argvRejected = FALSE
    /\ startDate = Nil
    /\ endDate = Nil
    /\ limit = 0
    /\ tail = FALSE
    /\ query = ""
    /\ parts = << >>
    /\ partIdx = 1
    /\ accumulator = 0
    /\ rangeSeconds = Nil
    /\ opts = Nil
    /\ result = Nil
    /\ configPathLoaded = Nil
    /\ pathOut = << >>
    /\ stderr = << >>
    /\ exitStatus = Nil

-----------------------------------------------------------------------------
(* strToDate, lines 110-138 *)

\* a point in time: its year, its day of the year and its time of day
Time(y, d, c) == [year |-> y, day |-> d, clock |-> c]

\* time.Now() of the run
Now == Time(2026, "11-04", "11:13:00")
Today == "2026-11-04"

\* the date strings a user gives in the model: none, a time only, a full
\* date, a date that names no year, and text that is no date
DateInputs == { "", "1:32pm", "2019-01-04 12:30:00", "Jan 4 12:30", "garbage" }

\* line 116: does the text match ^[0-9]{1,2}:[0-9]{2}(:[0-9]{2})?([ ]*(am|pm|AM|PM)?)?$
IsTimeOnly(dateStr) == dateStr = "1:32pm"

\* dateparse.ParseLocal on the texts the model gives it: a date without a
\* year comes back with year 0
ParseLocal(dateStr) ==
    CASE dateStr = Today \o " " \o "1:32pm" ->
             [time |-> Time(2026, "11-04", "13:32:00"), err |-> Nil]
      [] dateStr = "2019-01-04 12:30:00" ->
             [time |-> Time(2019, "01-04", "12:30:00"), err |-> Nil]
      [] dateStr = "Jan 4 12:30" ->
             [time |-> Time(0, "01-04", "12:30:00"), err |-> Nil]
      [] OTHER ->
             [time |-> Time(1, "01-01", "00:00:00"),
              err |-> Ptr("Could not find format for " \o dateStr)]

EmptyDateMutNeverNow(defaultToNow) == Nil

\* lines 133-137: the value for an empty date string
EmptyDate(defaultToNow) == IF defaultToNow THEN Ptr(Now) ELSE Nil

\* the value of strToDate: the pointer it returns, or the fatal path with
\* what invalidArgs writes
StrToDate(dateStr, errorStr, defaultToNow) ==
    IF dateStr /= ""
    THEN LET full == IF IsTimeOnly(dateStr) THEN Today \o " " \o dateStr
                                            ELSE dateStr
             p == ParseLocal(full)
         IN  IF p.err /= Nil
             THEN [fatal |-> TRUE, date |-> Nil,
                   errout |-> InvalidArgs(p.err, errorStr)]
             ELSE [fatal |-> FALSE,
                   date |-> Ptr(IF p.time.year = 0
                                THEN [p.time EXCEPT !.year = @ + Now.year]
                                ELSE p.time),
                   errout |-> << >>]
    ELSE [fatal |-> FALSE, date |-> EmptyDate(defaultToNow), errout |-> << >>]

-----------------------------------------------------------------------------
(* isTty, lines 201-205: the terminal check is commented out *)

IsTty == TRUE

-----------------------------------------------------------------------------
(* parseArgs, lines 43-107 *)

\* what the user can put on the command line; an option left out is Nil
\* (for the string options of lines 48-55 without a default, the empty text)
RawLimits == (-MaxLimit .. MaxLimit)
RawConfigPaths == { << "~", "/", "x" >>, << "/", "e", "/", "~", "/", "x" >> }
RawRanges == { << "1", "d", "2", "h" >>, << "5", "x" >>, << "x" >> }

Argvs ==
    [ service : { "", "send-email" },
      query   : { "", "status:error" },
      limit   : { Nil } \cup { Ptr(n) : n \in RawLimits },
      tail    : BOOLEAN,
      config  : { Nil } \cup { Ptr(c) : c \in RawConfigPaths },
      range   : { Nil } \cup { Ptr(r) : r \in RawRanges },
      start   : DateInputs \ { "Jan 4 12:30" },
      end     : DateInputs \ { "2019-01-04 12:30:00" },
      json    : BOOLEAN,
      noColor : BOOLEAN ]

\* lines 48-57: the values the parser's pointers hold after Parse, the
\* defaults of lines 50, 52 and 53 standing in for options left out
ParsedFlags(a, defConfigPath) ==
    [ service    |-> a.service,
      query      |-> a.query,
      limit      |-> IF a.limit = Nil THEN DefaultLimit ELSE Deref(a.limit),
      tail       |-> a.tail,
      configPath |-> IF a.config = Nil THEN defConfigPath ELSE Deref(a.config),
      timeRange  |-> IF a.range = Nil THEN DefaultRange ELSE Deref(a.range),
      start      |-> a.start,
      end        |-> a.end,
      json       |-> a.json,
      noColor    |-> a.noColor ]

ResolveLimitMutStrict(l) == IF l < 0 THEN DefaultLimit ELSE l

\* lines 66-69
ResolveLimit(l) == IF l <= 0 THEN DefaultLimit ELSE l

ResolveTailMutKeep(t, start) == t

\* lines 71-74
ResolveTail(t, start) == IF start /= Nil THEN FALSE ELSE t

MergeQueryMutOr(service, q) ==
    IF service /= ""
    THEN IF q /= "" THEN "service:" \o service \o " OR " \o q
                    ELSE "service:" \o service
    ELSE q

\* lines 76-83
MergeQuery(service, q) ==
    IF service /= ""
    THEN IF q /= "" THEN "service:" \o service \o " AND " \o q
                    ELSE "service:" \o service
    ELSE q

\* lines 44-46: expandPath(DefaultConfigPath) is called
Begin ==
    /\ pc = "start"
    /\ pathIn' = DefaultConfigPath
    /\ pc' = "ep_enter"
    /\ UNCHANGED << caller, stdoutIsTerminal, usr, defaultConfigPath, flags,
                    argv, argvRejected, startDate, endDate, limit, tail,
                    query, timeRange, parts, partIdx, accumulator,
                    rangeSeconds, opts, result, configPathLoaded, pathOut,
                    stderr, exitStatus >>

\* lines 46-61: the default is kept, the options are declared and os.Args
\* is parsed; a rejected command line takes the fatal path
ParseArgv ==
    /\ pc = "parse"
    /\ defaultConfigPath' = Ptr(pathOut)
    /\ \/ /\ stderr' = stderr \o InvalidArgs(Ptr("unknown arguments"), "")
          /\ exitStatus' = Ptr(1)
          /\ pc' = "exited"
          /\ argvRejected' = TRUE
          /\ UNCHANGED << flags, argv >>
       \/ \E a \in Argvs :
             /\ argv' = Ptr(a)
             /\ flags' = Ptr(ParsedFlags(a, pathOut))
             /\ pc' = "start_date"
             /\ UNCHANGED << stderr, exitStatus, argvRejected >>
    /\ UNCHANGED << caller, stdoutIsTerminal, usr, startDate, endDate,
                    limit, tail, query, timeRange, parts, partIdx,
                    accumulator, rangeSeconds, opts, result,
                    configPathLoaded, pathIn, pathOut >>

\* line 63
ResolveStart ==
    /\ pc = "start_date"
    /\ LET r == StrToDate(Deref(flags).start,
                          "The --start date can't be parsed", FALSE)
       IN  IF r.fatal
           THEN /\ stderr' = stderr \o r.errout
                /\ exitStatus' = Ptr(1)
                /\ pc' = "exited"
                /\ UNCHANGED startDate
           ELSE /\ startDate' = r.date
                /\ pc' = "end_date"
                /\ UNCHANGED << stderr, exitStatus >>
    /\ UNCHANGED << caller, stdoutIsTerminal, usr, defaultConfigPath, flags,
                    argv, argvRejected, endDate, limit, tail, query,
                    timeRange, parts, partIdx, accumulator, rangeSeconds,
                    opts, result, configPathLoaded, pathIn, pathOut >>

\* line 64
ResolveEnd ==
    /\ pc = "end_date"
    /\ LET r == StrToDate(Deref(flags).end,
                          "The --end date can't be parsed", TRUE)
       IN  IF r.fatal
           THEN /\ stderr' = stderr \o r.errout
                /\ exitStatus' = Ptr(1)
                /\ pc' = "exited"
                /\ UNCHANGED endDate
           ELSE /\ endDate' = r.date
                /\ pc' = "normalize"
                /\ UNCHANGED << stderr, exitStatus >>
    /\ UNCHANGED << caller, stdoutIsTerminal, usr, defaultConfigPath, flags,
                    argv, argvRejected, startDate, limit, tail, query,
                    timeRange, parts, partIdx, accumulator, rangeSeconds,
                    opts, result, configPathLoaded, pathIn, pathOut >>

\* lines 66-91: limit, tail and query are settled, and the options literal
\* is evaluated up to its call of timeRangeToSeconds
Normalize ==
    /\ pc = "normalize"
    /\ limit' = ResolveLimit(Deref(flags).limit)
    /\ tail' = ResolveTail(Deref(flags).tail, startDate)
    /\ query' = MergeQuery(Deref(flags).service, Deref(flags).query)
    /\ timeRange' = Deref(flags).timeRange
    /\ pc' = "trs_enter"
    /\ UNCHANGED << caller, stdoutIsTerminal, usr, defaultConfigPath, flags,
                    argv, argvRejected, startDate, endDate, parts, partIdx,
                    accumulator, rangeSeconds, opts, result,
                    configPathLoaded, pathIn, pathOut, stderr, exitStatus >>

\* lines 85-96
BuildOpts ==
    /\ pc = "opts"
    /\ opts' = Ptr([ service      |-> Deref(flags).service,
                     query        |-> query,
                     limit        |-> limit,
                     tail         |-> tail,
                     configPath   |-> Deref(flags).configPath,
                     timeRange    |-> Deref(rangeSeconds),
                     startDate    |-> startDate,
                     endDate      |-> endDate,
                     json         |-> Deref(flags).json,
                     serverConfig |-> Nil,
                     color        |-> ~Deref(flags).noColor /\ IsTty ])
    /\ pc' = "config"
    /\ UNCHANGED << caller, stdoutIsTerminal, usr, defaultConfigPath, flags,
                    argv, argvRejected, startDate, endDate, limit, tail,
                    query, timeRange, parts, partIdx, accumulator,
                    rangeSeconds, result, configPathLoaded, pathIn, pathOut,
                    stderr, exitStatus >>

\* lines 98-106: config.New reads the file or fails
LoadConfig ==
    /\ pc = "config"
    /\ configPathLoaded' = Ptr(Deref(opts).configPath)
    /\ \/ /\ stderr' = stderr \o InvalidArgs(Ptr("config: cannot load file"), "")
          /\ exitStatus' = Ptr(1)
          /\ pc' = "exited"
          /\ UNCHANGED << opts, result >>
       \/ /\ opts' = Ptr([Deref(opts) EXCEPT !.serverConfig = Ptr("cfg")])
          /\ result' = opts'
          /\ pc' = "returned"
          /\ UNCHANGED << stderr, exitStatus >>
    /\ UNCHANGED << caller, stdoutIsTerminal, usr, defaultConfigPath, flags,
                    argv, argvRejected, startDate, endDate, limit, tail,
                    query, timeRange, parts, partIdx, accumulator,
                    rangeSeconds, pathIn, pathOut >>

\* one invocation of the program, up to the return of parseArgs
Init ==
    /\ Idle
    /\ stdoutIsTerminal \in BOOLEAN
    /\ pc = "start"
    /\ caller = "parseArgs"
    /\ timeRange = << >>
    /\ pathIn = << >>

Next ==
    \/ Begin
    \/ ExpandPathCall
    \/ ParseArgv
    \/ ResolveStart
    \/ ResolveEnd
    \/ Normalize
    \/ TrsFindAll
    \/ TrsPart
    \/ TrsReturn
    \/ BuildOpts
    \/ LoadConfig

Spec == Init /\ [][Next]_vars

\* timeRangeToSeconds called on its own with any short range string
InitRange ==
    /\ Idle
    /\ pathIn = << >>
    /\ stdoutIsTerminal = TRUE
    /\ pc = "trs_enter"
    /\ caller = "test"
    /\ timeRange \in RangeInputs

NextRange == TrsFindAll \/ TrsPart \/ TrsReturn

SpecRange == InitRange /\ [][NextRange]_vars

\* expandPath called on its own with any short path
InitPath ==
    /\ Idle
    /\ stdoutIsTerminal = TRUE
    /\ pc = "ep_enter"
    /\ caller = "test"
    /\ timeRange = << >>
    /\ pathIn \in PathInputs

NextPath == ExpandPathCall

SpecPath == InitPath /\ [][NextPath]_vars

-----------------------------------------------------------------------------
(* Properties *)

Returned == pc = "returned"
Raw == Deref(argv)
Produced == Deref(result)

\* C1: in every options record parseArgs returns, service is the raw service
\* value; the query is "service:" and the service, followed by " AND " and
\* the raw query when that is not empty, if the service is not empty, and
\* is the raw query unchanged if the service is empty.
C1_QueryMerge ==
    Returned =>
        /\ Produced.service = Raw.service
        /\ (Raw.service /= "" /\ Raw.query /= "" =>
              Produced.query = "service:" \o Raw.service \o " AND " \o Raw.query)
        /\ (Raw.service /= "" /\ Raw.query = "" =>
              Produced.query = "service:" \o Raw.service)
        /\ (Raw.service = "" => Produced.query = Raw.query)
        /\ (Raw.service = "send-email" /\ Raw.query = "status:error" =>
              Produced.query = "service:send-email AND status:error")

C1_Witness ==
    /\ Returned
    /\ Raw.service = "send-email"
    /\ Raw.query = "status:error"
    /\ Produced.query = "service:send-email AND status:error"

\* C2: in every options record parseArgs returns, tail is false when a
\* non-empty start time was given, whatever the tail flag, and is the tail
\* flag when no start time was given.
C2_TailOffWithStart ==
    Returned =>
        /\ (Raw.start /= "" => Produced.tail = FALSE)
        /\ (Raw.start = "" => Produced.tail = Raw.tail)

C2_Witness ==
    /\ Returned
    /\ Raw.start /= ""
    /\ Raw.tail = TRUE
    /\ Produced.tail = FALSE

\* the limit the parser delivers for the command line
RawLimit == IF Raw.limit = Nil THEN DefaultLimit ELSE Deref(Raw.limit)

\* C3: in every options record parseArgs returns, limit is greater than 0:
\* a raw limit of zero or less is replaced by 300 and nothing is written to
\* the error stream, and a raw limit greater than 0 is kept.
C3_LimitPositive ==
    Returned =>
        /\ Produced.limit > 0
        /\ (RawLimit <= 0 => Produced.limit = 300)
        /\ (RawLimit > 0 => Produced.limit = RawLimit)
        /\ stderr = << >>
        /\ exitStatus = Nil

C3_Witness ==
    /\ Returned
    /\ Raw.limit /= Nil
    /\ RawLimit < 0
    /\ Produced.limit = 300

\* the multiplier the specification gives a unit letter
SpecMultiplier(c) ==
    CASE c \in { "s", "S" } -> 1
      [] c \in { "m", "M" } -> 60
      [] c \in { "h", "H" } -> 3600
      [] c \in { "d", "D" } -> 86400
      [] OTHER -> 0

\* the sum of value times multiplier over the segments of s from position i,
\* when s from there on is a concatenation of valid segments (a non-empty
\* digit group and one unit letter); Nil when it is not.  `count` digits of
\* the segment under way have been read, and are worth `num`.
RECURSIVE SegmentSum(_, _, _, _)
SegmentSum(s, i, count, num) ==
    IF i > Len(s) THEN (IF count = 0 THEN Ptr(0) ELSE Nil)
    ELSE IF s[i] \in Digits
    THEN SegmentSum(s, i + 1, count + 1, 10 * num + DigitValue(s[i]))
    ELSE IF count > 0 /\ SpecMultiplier(s[i]) /= 0
    THEN LET rest == SegmentSum(s, i + 1, 0, 0)
         IN  IF rest = Nil THEN Nil
             ELSE Ptr(num * SpecMultiplier(s[i]) + Deref(rest))
    ELSE Nil

ValidSegments(s) == SegmentSum(s, 1, 0, 0) /= Nil

\* C4: for a range string that is a concatenation of valid segments,
\* timeRangeToSeconds never takes the fatal path and returns the sum of the
\* segments' values times their units' multipliers; and for every way of
\* cutting the string into two such concatenations, the result is the sum
\* of the results of the two parts and the result of the parts swapped.
C4_SumOfSegments ==
    ValidSegments(timeRange) =>
        /\ pc /= "exited"
        /\ pc = "trs_returned" =>
              /\ rangeSeconds = SegmentSum(timeRange, 1, 0, 0)
              /\ (timeRange = << >> => rangeSeconds = Ptr(0))
              /\ \A k \in 0..Len(timeRange) :
                    LET a == SubSeq(timeRange, 1, k)
                        b == SubSeq(timeRange, k + 1, Len(timeRange))
                    IN  ValidSegments(a) /\ ValidSegments(b) =>
                          /\ TimeRangeToSeconds(a) /= Nil
                          /\ TimeRangeToSeconds(b) /= Nil
                          /\ Deref(rangeSeconds) =
                                Deref(TimeRangeToSeconds(a))
                                + Deref(TimeRangeToSeconds(b))
                          /\ TimeRangeToSeconds(b \o a) = rangeSeconds

C4_Witness ==
    /\ pc = "trs_returned"
    /\ timeRange = << "1", "h", "1", "h" >>
    /\ rangeSeconds = Ptr(7200)

\* a letter that is no unit letter, or that no digit precedes: the range
\* string holds a segment whose unit is unknown or whose digit group is
\* empty or runs into letters
HasBadSegment(s) ==
    \E i \in 1..Len(s) :
        /\ s[i] \in Letters
        /\ \/ SpecMultiplier(s[i]) = 0
           \/ i = 1
           \/ s[i - 1] \notin Digits

\* C5: timeRangeToSeconds never returns a second count for a range string
\* that holds a segment of digits and letters whose unit is not one of s, m,
\* h, d or whose digit group does not parse as an integer, an empty digit
\* group included: it takes the fatal path.
C5_BadSegmentIsFatal ==
    pc = "trs_returned" => ~HasBadSegment(timeRange)

\* did the date string of the command line parse
DateParses(dateStr) == dateStr = "" \/ ~StrToDate(dateStr, "", TRUE).fatal

C7_EndPresentWithStart ==
    Returned =>
        /\ (Produced.startDate /= Nil => Produced.endDate /= Nil)
        /\ (Raw.end = "" => Produced.endDate = Ptr(Now))
        /\ (Raw.start = "" => Produced.startDate = Nil)

C7_Witness ==
    /\ Returned
    /\ Raw.start = "2019-01-04 12:30:00"
    /\ Raw.end = ""
    /\ Produced.startDate /= Nil
    /\ Produced.endDate = Ptr(Now)

\* the config path value of the command line: the one given with -c, or
\* the default
RawConfigPath ==
    IF Raw.config = Nil THEN DefaultConfigPath ELSE Deref(Raw.config)

\* C8: the configPath of every options record parseArgs returns, and the
\* path handed to the config loader, is expandPath of the raw config path
\* value, for the default and for a path given with -c/--config.
C8_ConfigPathExpanded ==
    Returned =>
        /\ Produced.configPath = ExpandPath(RawConfigPath, Deref(usr))
        /\ configPathLoaded = Ptr(ExpandPath(RawConfigPath, Deref(usr)))

\* C9: in every options record parseArgs returns, color is true only if
\* --no-colors was not given and the output stream is a terminal.
C9_ColorOnlyOnTerminal ==
    Returned =>
        /\ (Produced.color => ~Raw.noColor /\ stdoutIsTerminal)
        /\ (~stdoutIsTerminal => ~Produced.color)

\* C10: expandPath returns the home directory joined with the remainder
\* for a path that begins with "~/", and the path unchanged in every other
\* case, a "~" or "~/" after the first character included.
C10_PrefixOnly ==
    pc = "ep_returned" =>
        LET home == Deref(usr).HomeDir
            begins == Len(pathIn) >= 2 /\ pathIn[1] = "~" /\ pathIn[2] = "/"
            rest == SubSeq(pathIn, 3, Len(pathIn))
        IN  /\ begins => pathOut = FilepathJoin(home, rest)
            /\ begins /\ home = << "/", "h" >> /\ rest /= << >>
                 /\ (\A i \in 1..Len(rest) : rest[i] \notin { "/", "." }) =>
                    pathOut = home \o << "/" >> \o rest
            /\ pathIn = DefaultConfigPath /\ home = << "/", "h" >> =>
                 pathOut = << "/", "h", "/", ".", "d", "o", "g", "l", "o", "g" >>
            /\ ~begins => pathOut = pathIn

C10_Witness ==
    /\ pc = "ep_returned"
    /\ pathIn = EtcTildeFoo
    /\ pathOut = EtcTildeFoo

====
